---- MODULE Spec2Model ----
(***************************************************************************)
(* Model of dreambox-doom's src/lib.rs: the audio frame scheduler          *)
(* (MyApp::update, MyApp::process_audio, MyApp::schedule_voice), the       *)
(* engine's simulated clock (TIME, doom_gettime), the gamepad-to-key       *)
(* mapping of MyApp::update and the allocator adapter (doom_malloc,        *)
(* doom_free).                                                             *)
(*                                                                         *)
(* Time is counted in units of 1/44100 s, the largest unit in which both   *)
(* AUDIO_LOOKAHEAD_TIME (0.05 s) and one chunk (512/11025 s) are whole     *)
(* numbers; f64 arithmetic is modelled as exact arithmetic on these units. *)
(***************************************************************************)
EXTENDS Integers, Sequences, FiniteSets, TLC

VARIABLES
    real,                \* host mixer clock, the value of the last audio::get_time()
    pace,                \* host: the time from one vsync to the next when ticks are regular
    audio_schedule_time, \* MyApp.audio_schedule_time
    next_buf,            \* MyApp.next_buf
    time,                \* MyApp.time and the static TIME: the engine's simulated clock
    audio_buf,           \* MyApp.audio_buf: [channel][slot] -> None or Some(AudioSample)
    audio_queue,         \* MyApp.audio_queue: [channel] -> None or Some(Vec<i16>)
    mixer_queue,         \* host mixer command queue (commands not yet effective)
    next_handle,         \* host: handle the next created AudioSample gets
    panicked,            \* TRUE once a panic has ended the process
    created,             \* history: [channel] -> handles created for it, in order
    voiced,              \* history: [channel] -> number of schedule_voice calls for it
    pulled,              \* history: seeds of the last two chunks pulled from the engine
    last,                \* history: what the last tick read and did
    prev_gp_state,       \* MyApp.prev_gp_state
    prev_left,           \* MyApp.prev_left
    prev_right,          \* MyApp.prev_right
    prev_up,             \* MyApp.prev_up
    prev_down,           \* MyApp.prev_down
    held,                \* engine: the key codes whose last event was a key-down
    pad_last,            \* history: the gamepad states and key events of the last tick
    heap,                \* underlying allocator: [base address] -> None or a live block
    ptrs,                \* pointers doom_malloc returned, not yet freed, with the size asked
    alloc_last           \* history: the last allocator call and its outcome

vars == <<real, pace, audio_schedule_time, next_buf, time, audio_buf, audio_queue,
          mixer_queue, next_handle, panicked, created, voiced, pulled, last,
          prev_gp_state, prev_left, prev_right, prev_up, prev_down, held, pad_last,
          heap, ptrs, alloc_last>>

sched_vars == <<real, pace, audio_schedule_time, next_buf, time, audio_buf, audio_queue,
                mixer_queue, next_handle, created, voiced, pulled, last,
                prev_gp_state, prev_left, prev_right, prev_up, prev_down, held,
                pad_last>>

alloc_vars == <<heap, ptrs, alloc_last>>

-----------------------------------------------------------------------------
(* Units and program constants                                             *)

\* the sample rate given to create_s16 and to the Samplerate parameter
SampleRate == 11025

\* time units per second: four units per sample period
UnitsPerSecond == 4 * SampleRate

\* const AUDIO_LOOKAHEAD_TIME: f64 = 0.05
AUDIO_LOOKAHEAD_TIME == 2205

\* const AUDIO_NUM_BUFFERS: usize = 3
AUDIO_NUM_BUFFERS == 3

\* let sample_cnt = 512
sample_cnt == 512

\* one sample lasts UnitsPerSecond / SampleRate units
SamplePeriod == UnitsPerSecond \div SampleRate

\* 512.0 / 11025.0, the amount update adds to audio_schedule_time
ChunkDuration == sample_cnt * SamplePeriod

\* audio_schedule_time: -1.0 in MyApp::new
InitialScheduleTime == 0 - UnitsPerSecond

\* i16
I16Mod == 65536

-----------------------------------------------------------------------------
(* Bounds of the model                                                     *)

\* one display refresh (1.0 / 60.0 s) of host time between two ticks
TickLen == 735

\* the host clock is observed on a grid of a third of a refresh
Grid == TickLen \div 3

\* the host clock is followed for this many grid steps
MaxSteps == 44

\* the program is followed for this many ticks
MaxTicks == 7

\* a stall: grid steps that pass between two ticks when the tick is late
StallSteps == 30

\* grid steps that may pass between two reads of the clock inside one tick
JitterSteps == 1

MaxTime == MaxSteps * Grid
Stall == StallSteps * Grid
Jitter == JitterSteps * Grid

Channels == {0, 1}
Slots == 0 .. (AUDIO_NUM_BUFFERS - 1)

\* the engine hands out chunks of a small family, one per seed
Seeds == {1, 2}

\* host time between the last read of one tick and the first read of the next
Deltas == {0, TickLen, Stall}

\* host time between two reads of the clock inside one tick
Jitters == {0, Jitter}

\* the longest regular tick period followed, in grid steps
MaxPaceSteps == 6

\* the regular tick periods the host may run at: the display refresh, and
\* faster and slower ones
Paces == {k * Grid : k \in 2 .. MaxPaceSteps}

\* Option<T>
None == [some |-> FALSE]
Some(x) == [some |-> TRUE, val |-> x]

-----------------------------------------------------------------------------
(* The engine's sound buffer and the de-interleave                         *)

\* wrap an integer into i16
ToI16(x) == LET u == x % I16Mod IN IF u >= I16Mod \div 2 THEN u - I16Mod ELSE u

\* doom_get_sound_buffer(): 1024 interleaved i16 samples; the engine is
\* external, its chunks are drawn from a small family indexed by seed
SoundBuffer(seed) ==
    [i \in 1 .. (2 * sample_cnt) |-> ToI16(seed * 7919 + i * 4099)]

\* a slip in the rescale: a product that saturates at the ends of i16
Shl2Saturating(x) ==
    IF x * 4 > I16Mod \div 2 - 1 THEN I16Mod \div 2 - 1
    ELSE IF x * 4 < 0 - I16Mod \div 2 THEN 0 - I16Mod \div 2
    ELSE x * 4

\* x << 2 on an i16: the bits shifted out are lost
Shl2(x) == ToI16(x * 4)

\* data_l[i] = audio_buf[i * 2] << 2 (indices from 1 here)
DataL(buf) == [i \in 1 .. sample_cnt |-> Shl2(buf[2 * i - 1])]

\* data_r[i] = audio_buf[i * 2 + 1] << 2
DataR(buf) == [i \in 1 .. sample_cnt |-> Shl2(buf[2 * i])]

Data(buf, ch) == IF ch = 0 THEN DataL(buf) ELSE DataR(buf)

-----------------------------------------------------------------------------
(* The host mixer                                                          *)

Cmd(op, slot, param, value, t) ==
    [op |-> op, slot |-> slot, param |-> param, value |-> value, t |-> t]

\* a slip in schedule_voice: the voice started before it is stopped
schedule_voice_start_first(handle, slot, pan, t) ==
    << Cmd("set_i", slot, "SampleData", handle, t),
       Cmd("set_i", slot, "Samplerate", SampleRate, t),
       Cmd("set_i", slot, "LoopEnabled", 0, t),
       Cmd("set_i", slot, "Reverb", 0, t),
       Cmd("set_f", slot, "Volume", 1, t),
       Cmd("set_f", slot, "Pitch", 1, t),
       Cmd("set_f", slot, "Detune", 0, t),
       Cmd("set_f", slot, "Pan", pan, t),
       Cmd("set_f", slot, "FadeInDuration", 0, t),
       Cmd("set_f", slot, "FadeOutDuration", 0, t),
       Cmd("start", slot, "", 0, t),
       Cmd("stop", slot, "", 0, t) >>

\* MyApp::schedule_voice: the commands it appends to the mixer queue
schedule_voice(handle, slot, pan, t) ==
    << Cmd("set_i", slot, "SampleData", handle, t),
       Cmd("set_i", slot, "Samplerate", SampleRate, t),
       Cmd("set_i", slot, "LoopEnabled", 0, t),
       Cmd("set_i", slot, "Reverb", 0, t),
       Cmd("set_f", slot, "Volume", 1, t),
       Cmd("set_f", slot, "Pitch", 1, t),
       Cmd("set_f", slot, "Detune", 0, t),
       Cmd("set_f", slot, "Pan", pan, t),
       Cmd("set_f", slot, "FadeInDuration", 0, t),
       Cmd("set_f", slot, "FadeOutDuration", 0, t),
       Cmd("stop", slot, "", 0, t),
       Cmd("start", slot, "", 0, t) >>

\* the mixer has applied, and forgotten, the commands whose time has come
MixerAdvance(q, now) == SelectSeq(q, LAMBDA c : c.t > now)

\* AudioSample::create_s16(v, 11025): a host-resident buffer with a fresh
\* handle; start records the time its voice is programmed to start at
AudioSample(handle, v, t) == [handle |-> handle, data |-> v, start |-> t]

\* time a buffer takes to play: one sample period per sample
PlayDuration(sample) == Len(sample.data) * SamplePeriod

Pan(ch) == IF ch = 0 THEN 0 - 1 ELSE 1

-----------------------------------------------------------------------------
(* MyApp::process_audio                                                    *)

\* a slip in the rotation: one slot too few
SlotIndexShort(n) == n % (AUDIO_NUM_BUFFERS - 1)

\* the rotating slot a new buffer is stored in
SlotIndex(n) == n % AUDIO_NUM_BUFFERS

\* a slip in the stitch: the last sample of the new data instead of the first
StitchSampleLast(data) == data[sample_cnt]

\* the sample appended to the pending vector: the first of the new data
StitchSample(data) == data[1]

\* one `match &mut self.audio_queue[ch]` arm of process_audio on state st;
\* fail says that create_s16 returns an error, which expect turns into a panic
SubmitChannel(st, ch, data, t, fail) ==
    IF ~st.audio_queue[ch].some THEN st
    ELSE
      LET v == Append(st.audio_queue[ch].val, StitchSample(data))
          pushed == [st EXCEPT !.audio_queue[ch] = Some(v)]
      IN IF fail THEN [pushed EXCEPT !.panicked = TRUE]
         ELSE
           LET newbuf == AudioSample(st.next_handle, v, t)
               slot == SlotIndex(st.next_buf)
               old == st.audio_buf[ch][slot]
           IN [pushed EXCEPT
                 !.audio_buf[ch][slot] = Some(newbuf),
                 !.next_handle = @ + 1,
                 !.mixer_queue = @ \o schedule_voice(newbuf.handle, ch, Pan(ch), t),
                 !.created[ch] = Append(@, newbuf.handle),
                 !.voiced[ch] = @ + 1,
                 !.calls = Append(@, [handle |-> newbuf.handle, slot |-> ch,
                                      pan |-> Pan(ch), t |-> t]),
                 !.released = IF old.some
                              THEN @ \cup {[ch |-> ch, handle |-> old.val.handle,
                                            start |-> old.val.start,
                                            len |-> Len(old.val.data)]}
                              ELSE @]

\* what process_audio leaves in audio_queue[ch]
NewQueue(buf, ch) == Some(Data(buf, ch))

\* a slip in the timestamp: the look-ahead forgotten
StartTimeNow(sched) == sched

\* let t = self.audio_schedule_time + AUDIO_LOOKAHEAD_TIME
StartTime(sched) == sched + AUDIO_LOOKAHEAD_TIME

process_audio(st, seed, fail) ==
    LET t == StartTime(st.audio_schedule_time)
        buf == SoundBuffer(seed)
        s0 == [st EXCEPT !.pulled = IF Len(@) < 2 THEN Append(@, seed)
                                    ELSE <<@[2], seed>>,
                         !.pulls = @ + 1,
                         !.t = t]
        s1 == SubmitChannel(s0, 0, DataL(buf), t, fail = "left")
        s2 == IF s1.panicked THEN s1
              ELSE SubmitChannel(s1, 1, DataR(buf), t, fail = "right")
    IN IF s2.panicked THEN s2
       ELSE [s2 EXCEPT !.audio_queue = [ch \in Channels |-> NewQueue(buf, ch)],
                       !.next_buf = @ + 1]

-----------------------------------------------------------------------------
(* doom_malloc and doom_free over std::alloc                               *)

\* the 8-byte preamble
HeaderSize == 8

\* the alignment asked of the allocator: align_to(8)
Align == 8

\* isize::MAX on wasm32, the target the source names
IsizeMax == 2147483647

\* the null pointer
Null == 0

\* the arena of the underlying allocator holds this many 8-byte words
ArenaWords == 4

\* addresses the underlying allocator can place a block at
Bases == {Align * w : w \in 1 .. ArenaWords}

ArenaEnd == Align * (ArenaWords + 1)

\* sizes the engine asks for: i32 values, among them a negative one, the
\* largest size whose layout is valid and the largest i32
Sizes == {0 - 1, 0, 1, 8, 24, IsizeMax - 15, IsizeMax}

\* the sentinel pattern the engine writes into a payload
Patterns == {"AA"}

\* usize::try_from(size): Err for a negative size
TryFromOk(size) == size >= 0

\* Layout::array::<u8>(8 + size).unwrap().align_to(8).unwrap(): Err (and so a
\* panic) when 8 + size rounded up to the alignment exceeds isize::MAX
LayoutOk(size) == size <= IsizeMax - (Align - 1) - HeaderSize

Layout(n) == [size |-> n, align |-> Align]

\* the bytes of the live blocks
Occupied(h) ==
    UNION {{a \in Bases : h[b].some /\ b <= a /\ a < b + h[b].val.layout.size}
             : b \in Bases}

\* where std::alloc::alloc may place a block of this layout: any aligned run
\* of free bytes inside the arena
Placements(h, layout) ==
    {b \in Bases :
       /\ b % layout.align = 0
       /\ layout.size <= ArenaEnd - b
       /\ \A a \in Occupied(h) : a < b \/ a - b >= layout.size}

\* mem.add(8) on a null mem is undefined behaviour (an offset outside any
\* allocation): the build returns the wrapped address, and, free to take mem
\* for non-null, either keeps the null test or drops it and writes the
\* preamble at address 0
NullAdd == {[ret |-> Null + HeaderSize, wrote |-> w] : w \in BOOLEAN}

\* the engine's record of a pointer it was given and the size it asked for;
\* a pointer value given again replaces the record
Given(ps, ret, size) == {q \in ps : q.ptr # ret} \cup {[ptr |-> ret, size |-> size]}

\* the value doom_malloc writes into the preamble: size.into()
HeaderValue(size) == size

\* unsafe extern "C" fn doom_malloc(size: i32) -> *mut c_void
doom_malloc(size) ==
    IF ~TryFromOk(size) \/ ~LayoutOk(size)
    THEN /\ panicked' = TRUE
         /\ alloc_last' = [op |-> "malloc", size |-> size, outcome |-> "panic"]
         /\ UNCHANGED <<heap, ptrs>>
    ELSE LET layout == Layout(HeaderSize + size)
         IN \E mem \in {Null} \cup Placements(heap, layout) :
              IF mem = Null
              THEN \E ub \in NullAdd :
                     /\ ptrs' = Given(ptrs, ub.ret, size)
                     /\ alloc_last' = [op |-> "malloc", size |-> size,
                                       outcome |-> "returned", mem |-> mem,
                                       ret |-> ub.ret, wrote_null |-> ub.wrote]
                     /\ UNCHANGED <<heap, panicked>>
              ELSE /\ heap' = [heap EXCEPT ![mem] =
                                 Some([layout |-> layout, header |-> HeaderValue(size),
                                       payload |-> "uninit"])]
                   /\ ptrs' = Given(ptrs, mem + HeaderSize, size)
                   /\ alloc_last' = [op |-> "malloc", size |-> size,
                                     outcome |-> "returned", mem |-> mem,
                                     ret |-> mem + HeaderSize, wrote_null |-> FALSE]
                   /\ UNCHANGED panicked

\* the address doom_free reads the preamble at: ptr.sub(8)
HeaderAddr(ptr) == ptr - HeaderSize

\* unsafe extern "C" fn doom_free(ptr: *mut c_void); reading a preamble that
\* is not there, or handing dealloc a block or layout alloc did not give, is
\* undefined behaviour, after which nothing more is said of the process
doom_free(p) ==
    LET base == HeaderAddr(p.ptr)
    IN IF base \notin Bases \/ ~heap[base].some
       THEN /\ alloc_last' = [op |-> "free", ptr |-> p.ptr, outcome |-> "undefined"]
            /\ ptrs' = ptrs \ {p}
            /\ UNCHANGED <<heap, panicked>>
       ELSE LET size == heap[base].val.header
            IN IF ~TryFromOk(size) \/ ~LayoutOk(size)
               THEN /\ panicked' = TRUE
                    /\ alloc_last' = [op |-> "free", ptr |-> p.ptr,
                                      outcome |-> "panic"]
                    /\ UNCHANGED <<heap, ptrs>>
               ELSE IF Layout(HeaderSize + size) # heap[base].val.layout
               THEN /\ alloc_last' = [op |-> "free", ptr |-> p.ptr,
                                      outcome |-> "undefined"]
                    /\ ptrs' = ptrs \ {p}
                    /\ UNCHANGED <<heap, panicked>>
               ELSE /\ heap' = [heap EXCEPT ![base] = None]
                    /\ ptrs' = ptrs \ {p}
                    /\ alloc_last' = [op |-> "free", ptr |-> p.ptr, asked |-> p.size,
                                      outcome |-> "released", read |-> size,
                                      base |-> base,
                                      layout |-> Layout(HeaderSize + size)]
                    /\ UNCHANGED panicked

AllocRunning == ~panicked /\ alloc_last.outcome # "undefined"

\* the engine asks for memory
Malloc ==
    /\ AllocRunning
    /\ \E size \in Sizes : doom_malloc(size)
    /\ UNCHANGED sched_vars

\* the engine frees a pointer doom_malloc gave it, once
Free ==
    /\ AllocRunning
    /\ \E p \in ptrs : doom_free(p)
    /\ UNCHANGED sched_vars

\* the engine writes a pattern over the payload of one of its allocations
EngineWrite ==
    /\ AllocRunning
    /\ \E p \in ptrs, v \in Patterns :
         LET base == HeaderAddr(p.ptr)
         IN /\ p.size > 0
            /\ base \in Bases
            /\ heap[base].some
            /\ heap' = [heap EXCEPT ![base].val.payload = v]
            /\ alloc_last' = [op |-> "write", ptr |-> p.ptr, outcome |-> "written"]
    /\ UNCHANGED <<ptrs, panicked>>
    /\ UNCHANGED sched_vars

-----------------------------------------------------------------------------
(* MyApp::update, the gamepad mapping                                      *)

\* GamepadState: the buttons pressed and the left stick; the right stick,
\* which moves the mouse only, is left out
Pad(buttons, x, y) == [button_mask |-> buttons, left_stick_x |-> x, left_stick_y |-> y]

\* prev_gp_state in MyApp::new: nothing pressed, the sticks centred
NoPad == Pad({}, 0, 0)

\* the gamepad states read_state() may return in the model
Pads ==
    { NoPad,
      Pad({"A"}, 0, 0),
      Pad({"A", "B", "X"}, 0, 0),
      Pad({"R2", "L2", "R1", "L1"}, 0, 0),
      Pad({"Start", "Select"}, 0, 0 - 1024),
      Pad({"Left", "B"}, 0 - 1025, 0),
      Pad({}, 0 - 1025, 1025),
      Pad({"Left", "Up"}, 1024, 0),
      Pad({"Right", "Down"}, 1025, 0 - 1025) }

\* GamepadState::is_pressed
is_pressed(state, button) == button \in state.button_mask

\* the buttons update looks at, in its order, with the key codes each drives
ButtonKeys ==
    << [button |-> "R2", keys |-> <<157>>],
       [button |-> "L2", keys |-> <<182>>],
       [button |-> "R1", keys |-> <<101>>],
       [button |-> "L1", keys |-> <<113>>],
       [button |-> "Start", keys |-> <<255>>],
       [button |-> "A", keys |-> <<32, 13>>],
       [button |-> "B", keys |-> <<127>>],
       [button |-> "X", keys |-> <<27>>],
       [button |-> "Select", keys |-> <<9>>] >>

\* the four directions, in update's order, with the key code each drives
DirKeys == << <<"left", 44>>, <<"right", 46>>, <<"up", 173>>, <<"down", 175>> >>

\* new_left, new_right, new_up, new_down
new_dir(dir, state) ==
    CASE dir = "left" -> state.left_stick_x < 0 - 1024 \/ is_pressed(state, "Left")
      [] dir = "right" -> state.left_stick_x > 1024 \/ is_pressed(state, "Right")
      [] dir = "up" -> state.left_stick_y > 1024 \/ is_pressed(state, "Up")
      [] dir = "down" -> state.left_stick_y < 0 - 1024 \/ is_pressed(state, "Down")

KeyEvent(op, key) == [op |-> op, key |-> key]

\* a slip in the edge test: key-down on every tick the condition holds
EdgeLevel(now, before, keys) ==
    IF now THEN [i \in 1 .. Len(keys) |-> KeyEvent("down", keys[i])]
    ELSE IF before THEN [i \in 1 .. Len(keys) |-> KeyEvent("up", keys[i])]
    ELSE <<>>

\* if now && !before { doom_key_down(k).. } else if !now && before
\* { doom_key_up(k).. }
Edge(now, before, keys) ==
    IF now /\ ~before THEN [i \in 1 .. Len(keys) |-> KeyEvent("down", keys[i])]
    ELSE IF ~now /\ before THEN [i \in 1 .. Len(keys) |-> KeyEvent("up", keys[i])]
    ELSE <<>>

\* the key events of the button tests from the n-th on
RECURSIVE ButtonEvents(_, _, _)
ButtonEvents(prev_state, new_state, n) ==
    IF n > Len(ButtonKeys) THEN <<>>
    ELSE Edge(is_pressed(new_state, ButtonKeys[n].button),
              is_pressed(prev_state, ButtonKeys[n].button),
              ButtonKeys[n].keys)
         \o ButtonEvents(prev_state, new_state, n + 1)

\* the key events of the four direction tests; before: the prev_* flags
DirEvents(new_state, before) ==
    Edge(new_dir("left", new_state), before[1], <<DirKeys[1][2]>>)
    \o Edge(new_dir("right", new_state), before[2], <<DirKeys[2][2]>>)
    \o Edge(new_dir("up", new_state), before[3], <<DirKeys[3][2]>>)
    \o Edge(new_dir("down", new_state), before[4], <<DirKeys[4][2]>>)

\* the engine's view of the keys after a run of events
RECURSIVE HeldAfter(_, _)
HeldAfter(h, events) ==
    IF events = <<>> THEN h
    ELSE HeldAfter(IF Head(events).op = "down" THEN h \cup {Head(events).key}
                   ELSE h \ {Head(events).key},
                   Tail(events))

\* the gamepad part of update: the state is read and remembered before the
\* audio part runs, the key events are sent after it, so a tick that aborts
\* in process_audio sends none
ReadGamepad(new_state) ==
    /\ prev_gp_state' = new_state
    /\ IF panicked'
       THEN /\ pad_last' = [prev_state |-> prev_gp_state, new_state |-> new_state,
                            held0 |-> held, events |-> <<>>]
            /\ UNCHANGED <<prev_left, prev_right, prev_up, prev_down, held>>
       ELSE \E events \in {ButtonEvents(prev_gp_state, new_state, 1)
                             \o DirEvents(new_state, <<prev_left, prev_right,
                                                       prev_up, prev_down>>)} :
              /\ pad_last' = [prev_state |-> prev_gp_state, new_state |-> new_state,
                              held0 |-> held, events |-> events]
              /\ held' = HeldAfter(held, events)
              /\ prev_left' = new_dir("left", new_state)
              /\ prev_right' = new_dir("right", new_state)
              /\ prev_up' = new_dir("up", new_state)
              /\ prev_down' = new_dir("down", new_state)

-----------------------------------------------------------------------------
(* MyApp::update, the part of the tick that drives the audio               *)

\* a slip in the resync test: the comparison turned round
FellBehindReversed(sched, now) == sched > now

\* if self.audio_schedule_time < audio::get_time()
FellBehind(sched, now) == sched < now

\* a slip in the resync: -= written for =
ResyncCompound(sched, now) == sched - now

\* a slip in the resync: the look-ahead taken off the clock
ResyncEarly(sched, now) == now - AUDIO_LOOKAHEAD_TIME

\* self.audio_schedule_time = audio::get_time()
Resync(sched, now) == now

\* a slip in the gate: the look-ahead added instead of taken off
GatePlusLookahead(now, sched) == now >= sched + AUDIO_LOOKAHEAD_TIME

\* a slip in the gate: the comparison turned round
GateReversed(now, sched) == now <= sched - AUDIO_LOOKAHEAD_TIME

\* a slip in the gate: the look-ahead forgotten
GateNoLookahead(now, sched) == now >= sched

\* a slip in the gate: two look-aheads instead of one
GateWide(now, sched) == now >= sched - 2 * AUDIO_LOOKAHEAD_TIME

\* if audio::get_time() >= self.audio_schedule_time - AUDIO_LOOKAHEAD_TIME
Gate(now, sched) == now >= sched - AUDIO_LOOKAHEAD_TIME

\* a slip in the advance: two chunks at once
AdvanceTwice(sched) == sched + 2 * ChunkDuration

\* a slip in the advance: the frame delta instead of the chunk's duration
AdvanceByDelta(sched) == sched + TickLen

\* a slip in the advance: 513 samples, the length of a stitched buffer
AdvanceStitched(sched) == sched + (sample_cnt + 1) * SamplePeriod

\* self.audio_schedule_time += 512.0 / 11025.0
Advance(sched) == sched + ChunkDuration

\* a slip in the simulated clock: the delta of a 30 Hz refresh
SimAdvanceSlow(t) == t + 2 * TickLen

\* self.time += delta; TIME = self.time
SimAdvance(t) == t + TickLen

\* doom_gettime: the simulated clock as whole seconds and microseconds
doom_gettime(t) ==
    [sec |-> t \div UnitsPerSecond,
     usec |-> ((t % UnitsPerSecond) * 10000) \div (UnitsPerSecond \div 100)]

\* history: the idle ticks in a row, this one included, counted as far as
\* three
IdleRun(before) == IF before >= 3 THEN before ELSE before + 1

\* the scheduler's state as one record, for process_audio to work on
AppState(sched, q) ==
    [audio_schedule_time |-> sched, next_buf |-> next_buf, audio_buf |-> audio_buf,
     audio_queue |-> audio_queue, mixer_queue |-> q, next_handle |-> next_handle,
     panicked |-> FALSE, created |-> created, voiced |-> voiced,
     pulled |-> pulled, released |-> {}, calls |-> <<>>, pulls |-> 0, t |-> 0]

\* the tick: update reads the host clock up to three times (r1 for the
\* resync test, r2 for the resync assignment, r3 for the gate); the clock
\* does not go back between them
Update(deltas, jitters, seeds, pads) ==
    /\ ~panicked
    /\ time < MaxTicks * TickLen
    /\ time' = SimAdvance(time)
    /\ \E d \in deltas, j1 \in jitters, j2 \in jitters :
         LET r1 == real + d
             resync == FellBehind(audio_schedule_time, r1)
             r2 == r1 + j1
             sched1 == IF resync THEN Resync(audio_schedule_time, r2)
                       ELSE audio_schedule_time
             r3 == (IF resync THEN r2 ELSE r1) + j2
             submit == Gate(r3, sched1)
             q == MixerAdvance(mixer_queue, r1)
             idle0 == IF last.ticked THEN last.idle ELSE 0
             tick == [r1 |-> r1, r2 |-> r2, r3 |-> r3,
                      sched0 |-> audio_schedule_time, sched1 |-> sched1,
                      resync |-> resync, submit |-> submit, time0 |-> time]
         IN /\ (~resync => j1 = 0)
            /\ r3 <= MaxTime
            /\ real' = r3
            /\ IF submit
               THEN \E seed \in seeds, fail \in {"none", "left", "right"} :
                      \E st \in {process_audio(AppState(sched1, q), seed, fail)} :
                         /\ (fail # "none" => audio_queue[0].some)
                         /\ audio_schedule_time' =
                              IF st.panicked THEN sched1 ELSE Advance(sched1)
                         /\ next_buf' = st.next_buf
                         /\ audio_buf' = st.audio_buf
                         /\ audio_queue' = st.audio_queue
                         /\ mixer_queue' = st.mixer_queue
                         /\ next_handle' = st.next_handle
                         /\ panicked' = st.panicked
                         /\ created' = st.created
                         /\ voiced' = st.voiced
                         /\ pulled' = st.pulled
                         /\ last' = [ticked |-> TRUE, tick |-> tick,
                                     released |-> st.released, calls |-> st.calls,
                                     pulls |-> st.pulls, t |-> st.t,
                                     idle |-> 0]
               ELSE /\ audio_schedule_time' = sched1
                    /\ mixer_queue' = q
                    /\ last' = [ticked |-> TRUE, tick |-> tick,
                                released |-> {}, calls |-> <<>>, pulls |-> 0,
                                t |-> 0, idle |-> IdleRun(idle0)]
                    /\ UNCHANGED <<next_buf, audio_buf, audio_queue, next_handle,
                                   panicked, created, voiced, pulled>>
    /\ \E new_state \in pads : ReadGamepad(new_state)
    /\ UNCHANGED pace
    /\ UNCHANGED alloc_vars

NextAlloc == Malloc \/ Free \/ EngineWrite

InitSched ==
    /\ real = 0
    /\ audio_schedule_time = InitialScheduleTime
    /\ next_buf = 0
    /\ time = 0
    /\ audio_buf = [ch \in Channels |-> [i \in Slots |-> None]]
    /\ audio_queue = [ch \in Channels |-> None]
    /\ mixer_queue = <<>>
    /\ next_handle = 1
    /\ panicked = FALSE
    /\ created = [ch \in Channels |-> <<>>]
    /\ voiced = [ch \in Channels |-> 0]
    /\ pulled = <<>>
    /\ last = [ticked |-> FALSE]
    /\ prev_gp_state = NoPad
    /\ prev_left = FALSE
    /\ prev_right = FALSE
    /\ prev_up = FALSE
    /\ prev_down = FALSE
    /\ held = {}
    /\ pad_last = [prev_state |-> NoPad, new_state |-> NoPad, held0 |-> {},
                   events |-> <<>>]

InitAlloc ==
    /\ heap = [a \in Bases |-> None]
    /\ ptrs = {}
    /\ alloc_last = [op |-> "none", outcome |-> "none"]

Init == InitSched /\ InitAlloc /\ pace = TickLen

\* the host runs at any one of the regular tick periods
InitLive == InitSched /\ InitAlloc /\ pace \in Paces

\* ticks at any phase of the host clock, late ticks and slow clock reads;
\* the engine repeats one chunk
Next == Update(Deltas, Jitters, {1}, {NoPad})

Spec == Init /\ [][Next]_vars

\* ticks one refresh apart or late, the clock standing still inside a tick;
\* the engine hands out any chunk of the family
NextData == Update({TickLen, Stall}, {0}, Seeds, {NoPad})

SpecData == Init /\ [][NextData]_vars

\* the engine's allocation calls alone
SpecAlloc == Init /\ [][NextAlloc]_vars

\* ticks exactly one tick period apart, the clock standing still inside a
\* tick; set_vsync_handler(tick) has the host call tick at every vsync, so a
\* tick that can run does run
NextLive == Update({pace}, {0}, Seeds, {NoPad})

SpecLive == InitLive /\ [][NextLive]_vars /\ WF_vars(NextLive)

\* ticks one refresh apart, the gamepad in any state of the family at each
NextPad == Update({TickLen}, {0}, {1}, Pads)

SpecPad == Init /\ [][NextPad]_vars

-----------------------------------------------------------------------------
(* Claims                                                                  *)

\* the time at which the mixer has played a released buffer to its end
PlayedOutAt(b) == b.start + b.len * SamplePeriod

\* C1: whenever process_audio overwrites a rotating slot and so releases the
\* buffer held there, the host clock is already at or past that buffer's
\* programmed start time plus its playback duration (513 samples at 11025 Hz).
C1_ReleasedAfterPlayback ==
    last.ticked => \A b \in last.released : real >= PlayedOutAt(b)

Min(a, b) == IF a < b THEN a ELSE b

\* the handles of the buffers a channel's rotating pool holds
PoolHandles(ch) ==
    {audio_buf[ch][i].val.handle : i \in {j \in Slots : audio_buf[ch][j].some}}

\* the last n (or all, if fewer) elements of a sequence, as a set
LastN(s, n) == {s[i] : i \in {j \in 1 .. Len(s) : j > Len(s) - n}}

\* C2: each channel's rotating pool holds exactly the min(k, 3) most recently
\* created buffers of the channel, k being the number created for it so far;
\* a buffer leaves the pool only when the third buffer after it is created.
C2_PoolHoldsMostRecent ==
    \A ch \in Channels :
      /\ PoolHandles(ch) = LastN(created[ch], AUDIO_NUM_BUFFERS)
      /\ Cardinality(PoolHandles(ch)) = Min(Len(created[ch]), AUDIO_NUM_BUFFERS)
      /\ last.ticked =>
           \A b \in last.released :
             b.ch = ch =>
               /\ Len(created[ch]) > AUDIO_NUM_BUFFERS
               /\ created[ch][Len(created[ch]) - AUDIO_NUM_BUFFERS] = b.handle

\* C2 witness: a fourth and later buffer has been created for both channels
\* and the tick released the oldest one of each
C2_Witness ==
    /\ last.ticked
    /\ \A ch \in Channels :
         /\ Len(created[ch]) > AUDIO_NUM_BUFFERS
         /\ \E b \in last.released : b.ch = ch

\* sample i (from 1) of channel ch of the chunk with this seed, rescaled
ChannelSample(seed, ch, i) == Shl2(SoundBuffer(seed)[2 * (i - 1) + ch + 1])

\* the buffer created last for a channel
Newest(ch) ==
    audio_buf[ch][CHOOSE i \in Slots :
                    /\ audio_buf[ch][i].some
                    /\ audio_buf[ch][i].val.handle = created[ch][Len(created[ch])]].val

\* C3: activation 0 creates no buffer; the buffer created at activation m >= 1
\* holds the 512 rescaled channel samples of chunk m-1 followed by the first
\* channel sample of chunk m, 513 in all; after each activation the pending
\* sequence of a channel is the channel's samples of the chunk just pulled.
C3_StitchContinuity ==
    ~panicked =>
      \A ch \in Channels :
        /\ next_buf = 0 => ~audio_queue[ch].some /\ created[ch] = <<>>
        /\ next_buf = 1 => created[ch] = <<>>
        /\ Len(created[ch]) = IF next_buf = 0 THEN 0 ELSE next_buf - 1
        /\ next_buf >= 1 =>
             /\ audio_queue[ch].some
             /\ Len(audio_queue[ch].val) = sample_cnt
             /\ \A i \in 1 .. sample_cnt :
                  audio_queue[ch].val[i] = ChannelSample(pulled[Len(pulled)], ch, i)
        /\ next_buf >= 2 =>
             /\ Len(Newest(ch).data) = sample_cnt + 1
             /\ \A i \in 1 .. sample_cnt :
                  Newest(ch).data[i] = ChannelSample(pulled[1], ch, i)
             /\ Newest(ch).data[sample_cnt + 1] = ChannelSample(pulled[2], ch, 1)

\* C3 witness: a buffer stitched from two different chunks
C3_Witness ==
    /\ ~panicked
    /\ next_buf >= 3
    /\ last.ticked /\ last.tick.submit
    /\ pulled[1] # pulled[2]

\* C4: the schedule clock at the end of a tick is at or past its value at the
\* start of the tick.
C4_ScheduleNonDecreasing ==
    last.ticked => audio_schedule_time >= last.tick.sched0

\* C4 witness: a tick after the first one resynchronized, submitted and
\* raised the schedule clock
C4_Witness ==
    /\ last.ticked /\ last.tick.resync /\ ~panicked
    /\ last.tick.sched0 > InitialScheduleTime
    /\ audio_schedule_time > last.tick.sched0

\* the tick ran process_audio to its end
Submitted == last.ticked /\ last.tick.submit /\ ~panicked

\* C5 as stated: on every tick that performs a submission the schedule clock
\* at the end of the tick is its value at the start of the tick plus one
\* chunk_duration.
C5_AdvanceFromTickStart ==
    Submitted => audio_schedule_time = last.tick.sched0 + ChunkDuration

\* C5 amended: on every tick that performs a submission the schedule clock at
\* the end of the tick is one chunk_duration past its value after the resync
\* check: past its value at the start of the tick if the tick did not
\* resynchronize, past the host clock read by the resync if it did.
C5_AdvanceFromResyncedClock ==
    Submitted =>
      audio_schedule_time =
        (IF last.tick.resync THEN last.tick.r2 ELSE last.tick.sched0) + ChunkDuration

\* C5 witness: a submitting tick that resynchronized, and so did not end one
\* chunk_duration past where it started
C5_Witness ==
    /\ Submitted /\ last.tick.resync
    /\ audio_schedule_time # last.tick.sched0 + ChunkDuration

\* C6: a tick entered with the schedule clock below the host clock sets the
\* schedule clock to the host clock it reads, whatever the distance, and the
\* buffers it submits are programmed at that host clock plus the look-ahead.
C6_ResyncToHostClock ==
    (last.ticked /\ last.tick.sched0 < last.tick.r1) =>
      /\ last.tick.resync
      /\ last.tick.sched1 = last.tick.r2
      /\ ~panicked => audio_schedule_time = last.tick.r2 + ChunkDuration
      /\ (~panicked /\ next_buf >= 2) =>
           \A ch \in Channels :
             Newest(ch).start = last.tick.r2 + AUDIO_LOOKAHEAD_TIME

\* C6 witness: a stall put the host clock more than a look-ahead and a chunk
\* past the schedule clock, and the tick submitted a buffer
C6_Witness ==
    /\ Submitted /\ next_buf >= 2
    /\ last.tick.sched0 > InitialScheduleTime
    /\ last.tick.r1 - last.tick.sched0 > AUDIO_LOOKAHEAD_TIME + ChunkDuration

\* C7: at the end of every tick the schedule clock is not more than one
\* look-ahead behind the host clock read during the tick.
C7_NotBehindByLookahead ==
    last.ticked => audio_schedule_time >= real - AUDIO_LOOKAHEAD_TIME

\* C7 witness: the first tick, entered with the schedule clock at -1.0 s
C7_Witness ==
    /\ last.ticked /\ last.tick.sched0 = InitialScheduleTime
    /\ real > 0

\* audio programmed and not yet played: from the host clock to the end of the
\* buffer programmed last
PendingAudio(ch) == Newest(ch).start + PlayDuration(Newest(ch)) - real

\* C8 as stated: at the end of every tick the audio scheduled and not yet
\* played is at most 2 chunk-durations.
C8_PendingWithinTwoChunks ==
    (last.ticked /\ ~panicked /\ next_buf >= 2) =>
      \A ch \in Channels : PendingAudio(ch) <= 2 * ChunkDuration

\* C8 amended: at the end of every tick the audio scheduled and not yet played
\* is at most two look-ahead intervals plus the duration of one 513-sample
\* buffer.
C8_PendingWithinTwoLookaheads ==
    (last.ticked /\ ~panicked /\ next_buf >= 2) =>
      \A ch \in Channels :
        PendingAudio(ch) <= 2 * AUDIO_LOOKAHEAD_TIME + (sample_cnt + 1) * SamplePeriod

\* C8 witness: a tick submitted a buffer that ends more than 2 chunk-durations
\* past the host clock
C8_Witness ==
    /\ Submitted /\ next_buf >= 2
    /\ \A ch \in Channels : PendingAudio(ch) > 2 * ChunkDuration

\* the block under a pointer the engine holds is live, S + 8 bytes long,
\* aligned to 8, and its preamble holds S
BlockIntact(q) ==
    /\ HeaderAddr(q.ptr) \in Bases
    /\ heap[HeaderAddr(q.ptr)].some
    /\ heap[HeaderAddr(q.ptr)].val.layout.align = Align
    /\ heap[HeaderAddr(q.ptr)].val.layout.size - HeaderSize = q.size
    /\ heap[HeaderAddr(q.ptr)].val.header = q.size

\* C9: for every size S >= 0 doom_malloc(S) returns a pointer 8 bytes past
\* the start of a block of S + 8 bytes aligned to 8 whose preamble holds S;
\* doom_free of a pointer doom_malloc gave reads back S and releases that
\* block with size S + 8 and alignment 8; the other live allocations and
\* their preambles stay as they were.
C9_HeaderRoundTrip ==
    /\ (alloc_last.op = "malloc" /\ alloc_last.size >= 0) =>
         /\ alloc_last.outcome = "returned"
         /\ alloc_last.mem \in Bases
         /\ alloc_last.ret = alloc_last.mem + HeaderSize
         /\ BlockIntact([ptr |-> alloc_last.ret, size |-> alloc_last.size])
    /\ alloc_last.op = "free" =>
         /\ alloc_last.outcome = "released"
         /\ alloc_last.read = alloc_last.asked
         /\ alloc_last.base = alloc_last.ptr - HeaderSize
         /\ alloc_last.layout.size - HeaderSize = alloc_last.asked
         /\ alloc_last.layout.align = Align
         /\ ~heap[alloc_last.base].some
    /\ \A q \in ptrs : BlockIntact(q)

\* C10: doom_malloc ends in a fatal error and returns no pointer whenever the
\* underlying allocator returns null or the size asked is negative.
C10_MallocFailsFatally ==
    (/\ alloc_last.op = "malloc"
     /\ \/ alloc_last.size < 0
        \/ (alloc_last.outcome = "returned" /\ alloc_last.mem = Null)) =>
      /\ alloc_last.outcome = "panic"
      /\ panicked

\* the ten parameter settings of one voice programming, as <<parameter, value>>
VoiceSettings(handle, pan) ==
    << <<"SampleData", handle>>, <<"Samplerate", 11025>>, <<"LoopEnabled", 0>>,
       <<"Reverb", 0>>, <<"Volume", 1>>, <<"Pitch", 1>>, <<"Detune", 0>>,
       <<"Pan", pan>>, <<"FadeInDuration", 0>>, <<"FadeOutDuration", 0>> >>

\* commands one voice programming puts in the queue
VoiceBlockLen == Len(VoiceSettings(0, 0)) + 2

\* the k-th run of twelve commands counted from position base of the queue
VoiceBlock(base, k) ==
    SubSeq(mixer_queue, base + VoiceBlockLen * (k - 1) + 1, base + VoiceBlockLen * k)

\* C11: every schedule_voice(handle, slot, pan, t) call appends to the mixer
\* queue, in order, the ten parameter settings (sample data = handle, sample
\* rate 11025, loop off, reverb off, volume 1, pitch 1, detune 0, pan, fade-in
\* 0, fade-out 0), then a stop immediately followed by a start, all twelve for
\* the slot of the call and at the time t of the call; the queue holds whole
\* runs of twelve only, so nothing for another slot is interleaved.
C11_VoiceProgramming ==
    last.ticked =>
      LET n == Len(last.calls)
          base == Len(mixer_queue) - VoiceBlockLen * n
      IN /\ base >= 0
         /\ \A k \in 1 .. n :
              LET c == last.calls[k]
                  b == VoiceBlock(base, k)
              IN /\ \A i \in 1 .. VoiceBlockLen : b[i].slot = c.slot /\ b[i].t = c.t
                 /\ \A i \in 1 .. 10 :
                      /\ b[i].op \in {"set_i", "set_f"}
                      /\ <<b[i].param, b[i].value>> = VoiceSettings(c.handle, c.pan)[i]
                 /\ b[11].op = "stop"
                 /\ b[12].op = "start"
         /\ Len(mixer_queue) % VoiceBlockLen = 0
         /\ \A k \in 1 .. (Len(mixer_queue) \div VoiceBlockLen) :
              LET b == VoiceBlock(0, k)
              IN /\ \A i \in 1 .. VoiceBlockLen : b[i].slot = b[1].slot /\ b[i].t = b[1].t
                 /\ b[11].op = "stop"
                 /\ b[12].op = "start"

\* C11 witness: a tick programmed both voices while commands of an earlier
\* tick were still waiting in the queue
C11_Witness ==
    /\ last.ticked
    /\ Len(last.calls) = 2
    /\ Len(mixer_queue) > 2 * VoiceBlockLen

\* C12: every process_audio activation programs neither channel or both; when
\* both, the left channel (voice slot 0, pan -1) has its buffer created and its
\* voice programmed before the right channel (voice slot 1, pan +1), both at
\* the same time, schedule clock + look-ahead, and both buffers are stored at
\* the same rotating slot index; after any sequence of ticks the two channels
\* have the same number of submissions and their pending sequences are both
\* absent or both present.
C12_ChannelsTogether ==
    last.ticked =>
      /\ Len(last.calls) \in {0, 2}
      /\ Len(last.calls) = 2 =>
           LET l == last.calls[1]
               r == last.calls[2]
           IN /\ l.slot = 0 /\ l.pan = 0 - 1
              /\ r.slot = 1 /\ r.pan = 1
              /\ l.handle < r.handle
              /\ l.t = last.tick.sched1 + AUDIO_LOOKAHEAD_TIME
              /\ r.t = l.t
              /\ \E i \in Slots :
                   /\ audio_buf[0][i].some /\ audio_buf[0][i].val.handle = l.handle
                   /\ audio_buf[1][i].some /\ audio_buf[1][i].val.handle = r.handle
      /\ voiced[0] = voiced[1]
      /\ Len(created[0]) = Len(created[1])
      /\ audio_queue[0].some <=> audio_queue[1].some

\* C13: after n >= 1 activations of process_audio (next_buf counts them)
\* exactly n - 1 voice-programming calls have been issued for each channel,
\* the first activation programming no voice; each call is timestamped exactly
\* one look-ahead after the schedule clock in force at its activation.
C13_CallsPerActivation ==
    /\ next_buf >= 1 => \A ch \in Channels : voiced[ch] = next_buf - 1
    /\ last.ticked =>
         \A k \in 1 .. Len(last.calls) :
           last.calls[k].t = last.tick.sched1 + AUDIO_LOOKAHEAD_TIME

\* ticks run so far, as the simulated clock counts them
TicksRun == time \div TickLen

\* C14: every tick, whether it submits, resynchronizes or idles, advances the
\* simulated clock by exactly the fixed delta (1/60 s), whatever the host clock
\* reads, and the engine's time query answers from it; the resync decision,
\* the schedule clock, the gate and the submission timestamps are determined
\* by the schedule clock and the host clock reads alone.
C14_ClocksDecoupled ==
    last.ticked =>
      /\ time = last.tick.time0 + TickLen
      /\ time = TicksRun * TickLen
      /\ doom_gettime(time) = [sec |-> TicksRun \div 60,
                               usec |-> ((TicksRun % 60) * 1000000) \div 60]
      /\ last.tick.resync = (last.tick.sched0 < last.tick.r1)
      /\ last.tick.sched1 = IF last.tick.resync THEN last.tick.r2
                            ELSE last.tick.sched0
      /\ last.tick.submit = (last.tick.r3 >= last.tick.sched1 - AUDIO_LOOKAHEAD_TIME)
      /\ \A k \in 1 .. Len(last.calls) :
           last.calls[k].t = last.tick.sched1 + AUDIO_LOOKAHEAD_TIME
      /\ audio_schedule_time =
           IF last.tick.submit /\ ~panicked THEN last.tick.sched1 + ChunkDuration
           ELSE last.tick.sched1

\* C14 witness: an idle tick, and earlier a stall of the host clock, so that
\* the two clocks are far apart
C14_Witness ==
    /\ last.ticked
    /\ ~last.tick.submit
    /\ real > time + AUDIO_LOOKAHEAD_TIME

\* the commands in the mixer queue
Queued(q) == {q[i] : i \in 1 .. Len(q)}

\* C15: a tick pulls a chunk and runs process_audio if and only if the host
\* clock it reads after the resync check is at or past the schedule clock minus
\* the look-ahead; a tick where it is not (an idle tick) pulls no chunk, creates
\* no buffer, enqueues no mixer command and leaves the pending sequences, the
\* rotating pool, next_buf and the schedule clock as they were.
C15_GateDecidesSubmission ==
    [][/\ (last'.pulls = 1) <=>
            (last'.tick.r3 >= last'.tick.sched1 - AUDIO_LOOKAHEAD_TIME)
       /\ last'.pulls \in {0, 1}
       /\ last'.pulls = 0 =>
            /\ UNCHANGED <<pulled, next_handle, created, voiced>>
            /\ last'.calls = <<>>
            /\ Len(mixer_queue') <= Len(mixer_queue)
            /\ Queued(mixer_queue') \subseteq Queued(mixer_queue)
            /\ UNCHANGED <<audio_queue, audio_buf, next_buf, audio_schedule_time>>
      ]_vars

\* C15 witness: an idle tick with a chunk pending, buffers in the pool and
\* commands waiting in the mixer queue
C15_Witness ==
    /\ last.ticked
    /\ last.pulls = 0
    /\ next_buf >= 2
    /\ mixer_queue # <<>>

\* C16 as stated: every voice start time t a tick programs lies between one
\* and two look-aheads ahead of the host clock of that tick, taken as the
\* clock the tick's gate read: real + 0.05 <= t <= real + 0.10.
C16_StartWithinLookaheadWindow ==
    last.ticked =>
      \A k \in 1 .. Len(last.calls) :
        /\ last.calls[k].t >= last.tick.r3 + AUDIO_LOOKAHEAD_TIME
        /\ last.calls[k].t <= last.tick.r3 + 2 * AUDIO_LOOKAHEAD_TIME

\* C16 amended: every voice start time t a tick programs is at least one
\* look-ahead past the host clock read by the tick's resync check and at most
\* two look-aheads past the host clock read by the tick's gate.
C16_StartWithinLookaheadOfReads ==
    last.ticked =>
      \A k \in 1 .. Len(last.calls) :
        /\ last.calls[k].t >= last.tick.r1 + AUDIO_LOOKAHEAD_TIME
        /\ last.calls[k].t <= last.tick.r3 + 2 * AUDIO_LOOKAHEAD_TIME

\* C16 witness: the host clock moved on between the reads of a tick that
\* programmed both voices, less than a look-ahead ahead of the gate's read
C16_Witness ==
    /\ last.ticked
    /\ Len(last.calls) = 2
    /\ last.tick.r3 > last.tick.r1
    /\ last.calls[1].t < last.tick.r3 + AUDIO_LOOKAHEAD_TIME

\* the chunk pulled last
LastChunk == SoundBuffer(pulled[Len(pulled)])

\* y is x shifted left by two bits in 16 bits: a 16-bit signed value that
\* differs from 4x by a multiple of 2^16
IsShiftedBy2(y, x) ==
    /\ y \in (0 - 32768) .. 32767
    /\ (y - 4 * x) % 65536 = 0

\* C17: for every pulled chunk of 1024 interleaved 16-bit samples and every i
\* in 0..511, left sample i is chunk[2i] shifted left by 2 bits and right
\* sample i is chunk[2i+1] shifted left by 2 bits, as a 16-bit signed value:
\* 4x modulo 2^16, so that inputs outside -8192..8191 wrap.
C17_DeinterleaveShift ==
    (last.ticked /\ last.pulls = 1 /\ ~panicked) =>
      /\ Len(LastChunk) = 1024
      /\ \A ch \in Channels :
           /\ audio_queue[ch].some
           /\ Len(audio_queue[ch].val) = 512
           /\ \A i \in 0 .. 511 :
                IsShiftedBy2(audio_queue[ch].val[i + 1], LastChunk[2 * i + ch + 1])

\* C17 witness: a chunk was pulled that holds, for each channel, a sample
\* above 8191 and a sample below -8192, whose products by 4 do not fit
C17_Witness ==
    /\ last.ticked /\ last.pulls = 1 /\ ~panicked
    /\ \A ch \in Channels :
         /\ \E i \in 0 .. 511 :
              /\ LastChunk[2 * i + ch + 1] > 8191
              /\ audio_queue[ch].val[i + 1] # 4 * LastChunk[2 * i + ch + 1]
         /\ \E i \in 0 .. 511 :
              /\ LastChunk[2 * i + ch + 1] < 0 - 8192
              /\ audio_queue[ch].val[i + 1] # 4 * LastChunk[2 * i + ch + 1]

\* the buffers a channel's pool holds
Pool(ch) == {audio_buf[ch][i].val : i \in {j \in Slots : audio_buf[ch][j].some}}

\* positions of the start commands for a voice slot in the mixer queue
StartsQueued(ch) ==
    {i \in 1 .. Len(mixer_queue) :
       mixer_queue[i].op = "start" /\ mixer_queue[i].slot = ch}

\* C18: on each voice slot the start times programmed by successive
\* submissions are strictly increasing and at least one chunk_duration
\* (512/11025 s) apart, through any mix of normal, idle and resync ticks, and
\* the commands wait in the mixer queue in that order.
C18_StartsInOrderAChunkApart ==
    \A ch \in Channels :
      /\ \A a, b \in Pool(ch) :
           a.handle < b.handle => b.start - a.start >= ChunkDuration
      /\ \A i, j \in StartsQueued(ch) :
           i < j => mixer_queue[j].t - mixer_queue[i].t >= ChunkDuration
      /\ last.ticked =>
           \A k \in 1 .. Len(last.calls) :
             last.calls[k].slot = ch =>
               \E b \in Pool(ch) :
                 /\ b.handle = last.calls[k].handle
                 /\ b.start = last.calls[k].t
                 /\ \A a \in Pool(ch) : a.handle <= b.handle

\* C18 witness: a pool whose three buffers were programmed one chunk_duration
\* apart and, after a resync, more than one apart, the last start waiting in
\* the mixer queue
C18_Witness ==
    \A ch \in Channels :
      /\ \E a, b, c \in Pool(ch) :
           /\ a.handle < b.handle /\ b.handle < c.handle
           /\ b.start - a.start = ChunkDuration
           /\ c.start - b.start > ChunkDuration
      /\ StartsQueued(ch) # {}

\* C19: every tick that resynchronizes the schedule clock also passes the gate
\* in that same tick and pulls a chunk, so the chunk pending from before the
\* stall is submitted, at the host clock the resync read plus the look-ahead;
\* the first tick, entered with the schedule clock at -1.0 s, always
\* resynchronizes and pulls a chunk.
C19_ResyncTickSubmits ==
    last.ticked =>
      /\ last.tick.resync =>
           /\ last.tick.submit
           /\ last.pulls = 1
           /\ \A k \in 1 .. Len(last.calls) :
                last.calls[k].t = last.tick.r2 + AUDIO_LOOKAHEAD_TIME
           /\ (~panicked /\ next_buf >= 2) =>
                {last.calls[k].slot : k \in 1 .. Len(last.calls)} = Channels
      /\ last.tick.sched0 = InitialScheduleTime =>
           /\ last.tick.resync
           /\ last.pulls = 1
           /\ next_buf = 1

\* C19 witness: a tick after a stall resynchronized with a chunk pending and
\* programmed it for both channels
C19_Witness ==
    /\ last.ticked
    /\ last.tick.resync
    /\ last.tick.sched0 > InitialScheduleTime
    /\ last.tick.r1 - last.tick.sched0 > AUDIO_LOOKAHEAD_TIME
    /\ Len(last.calls) = 2

\* C20: at the end of every tick the schedule clock is at or past the host
\* clock read during the tick and at most one look-ahead plus one
\* chunk_duration past it.
C20_ScheduleWithinWindow ==
    (last.ticked /\ ~panicked) =>
      /\ audio_schedule_time >= real
      /\ audio_schedule_time <= real + AUDIO_LOOKAHEAD_TIME + ChunkDuration

\* C20 witness: a tick that did not resynchronize submitted as soon as the
\* gate let it, which puts the schedule clock within one step of the host
\* clock from the far end of the window
C20_Witness ==
    /\ Submitted
    /\ ~last.tick.resync
    /\ audio_schedule_time > real + AUDIO_LOOKAHEAD_TIME + ChunkDuration - Grid

\* times the gate has fired: the activations run to their end and the one
\* that aborted
Fired == next_buf + (IF panicked THEN 1 ELSE 0)

\* ticks in which the host clock covers one chunk_duration
TicksPerChunk == (ChunkDuration + pace - 1) \div pace

\* the process runs and the clocks are followed for that many ticks more
RoomToFire ==
    /\ ~panicked
    /\ time + TicksPerChunk * TickLen <= MaxTicks * TickLen
    /\ real + TicksPerChunk * pace <= MaxTime

\* C21: when ticks keep occurring and the host clock advances by a fixed
\* positive amount per tick, the gate fires again and again: from every state,
\* as far as the clocks are followed, a further firing follows; with ticks
\* exactly 1/60 s apart no more than 2 idle ticks in a row come between two
\* activations of process_audio.
C21_GateKeepsFiring ==
    /\ \A k \in 0 .. MaxTicks : (RoomToFire /\ Fired = k) ~> (Fired > k)
    /\ []((last.ticked /\ pace = TickLen) => last.idle <= 2)

\* C21 witness: ticks 1/60 s apart, and after three activations two idle
\* ticks in a row
C21_Witness ==
    /\ pace = TickLen
    /\ last.ticked
    /\ last.idle = 2
    /\ next_buf >= 3

\* the buttons and directions that drive a key code
Drivers(key) ==
    {ButtonKeys[n].button :
       n \in {m \in 1 .. Len(ButtonKeys) :
                \E i \in 1 .. Len(ButtonKeys[m].keys) : ButtonKeys[m].keys[i] = key}}
    \cup {DirKeys[d][1] : d \in {c \in 1 .. Len(DirKeys) : DirKeys[c][2] = key}}

\* the key codes the gamepad mapping drives
KeyCodes ==
    UNION {{ButtonKeys[n].keys[i] : i \in 1 .. Len(ButtonKeys[n].keys)} :
             n \in 1 .. Len(ButtonKeys)}
    \cup {DirKeys[d][2] : d \in 1 .. Len(DirKeys)}

\* the button/stick condition of a key code in a gamepad state
KeyCondition(key, state) ==
    \E src \in Drivers(key) :
      IF src \in {"left", "right", "up", "down"} THEN new_dir(src, state)
      ELSE is_pressed(state, src)

\* C22: for every key code the gamepad mapping drives, key-down and key-up
\* events strictly alternate, starting with key-down: a key-down is sent only
\* for a key that is up and only on a tick where its button/stick condition
\* became true since the previous tick, a key-up only for a key that is down
\* and only where the condition became false; distinct buttons never drive
\* the same key code.
C22_KeysAlternate ==
    /\ \A i \in 1 .. Len(pad_last.events) :
         LET e == pad_last.events[i]
             before == HeldAfter(pad_last.held0, SubSeq(pad_last.events, 1, i - 1))
         IN /\ e.key \in KeyCodes
            /\ e.op = "down" =>
                 /\ e.key \notin before
                 /\ KeyCondition(e.key, pad_last.new_state)
                 /\ ~KeyCondition(e.key, pad_last.prev_state)
            /\ e.op = "up" =>
                 /\ e.key \in before
                 /\ ~KeyCondition(e.key, pad_last.new_state)
                 /\ KeyCondition(e.key, pad_last.prev_state)
    /\ \A k \in KeyCodes : Cardinality(Drivers(k)) = 1

\* C22 witness: in one tick a key went down, another went up, a third stayed
\* down without an event and the left key is held by the stick after the
\* button that pressed it was let go
C22_Witness ==
    /\ \E i, j \in 1 .. Len(pad_last.events) :
         pad_last.events[i].op = "down" /\ pad_last.events[j].op = "up"
    /\ \E k \in pad_last.held0 \cap held :
         \A i \in 1 .. Len(pad_last.events) : pad_last.events[i].key # k
    /\ 44 \in pad_last.held0 \cap held
    /\ is_pressed(pad_last.prev_state, "Left")
    /\ ~is_pressed(pad_last.new_state, "Left")

====
